---- MODULE Spec2Model ----
(***************************************************************************)
(* A model of the vier/vijf and canvas/een/vrtnu extractors of youtube-dl  *)
(* (youtube_dl/extractor/vier.py, youtube_dl/extractor/canvas.py).         *)
(*                                                                         *)
(* Python values are represented as follows:                               *)
(*   - an optional value is a tuple: <<>> is None and <<v>> is the value v *)
(*   - a string whose characters matter (a page number, a season) is a     *)
(*     tuple of one-character strings; other strings are TLA+ strings      *)
(*   - every call of the downloader is appended to `requests`              *)
(***************************************************************************)
EXTENDS Integers, Sequences, FiniteSets, TLC

VARIABLES
    pc,               \* position of the running handler
    error,            \* None, or <<kind>> of the exception that left the handler
    result,           \* None, or <<record>> returned by the handler
    requests,         \* the downloader calls made so far, in order
    \* VierVideosIE._real_extract
    mobj,             \* the groups of the matched URL
    page_id,          \* None or <<int>>
    current_page_id,  \* the loop counter of itertools.count(start_page)
    playlist_id,
    entries,
    more_marker,      \* the site: whether listing page p contains '>Meer<'
    \* CanvasIE._extract_info
    ie,               \* the extractor whose _real_extract is running, or None
    info_args,        \* None or <<[site_id, video_id, display_id]>>
    data,             \* None or <<the JSON of the media-asset API>>
    target_idx,       \* index of the next entry of data['targetUrls']
    formats,
    info,             \* None or <<the dictionary _extract_info returned>>
    \* the process: downloader options, cookie jar, extractor instances
    credentials,      \* what _get_login_info returns: [username, password]
    cookies,          \* the names of the cookies in the jar
    ready,            \* per extractor: InfoExtractor._ready
    logged_in,        \* VierIE._logged_in: None until _real_initialize ran
    nreq,             \* the number of extraction requests begun
    calls,            \* the invocations of _login so far, in order
    auth_info,        \* None or <<the keys of the JSON in the saved response>>
    \* _real_extract of CanvasIE, VrtNUIE and VierIE
    webpage,          \* None or <<what the patterns find in the page>>
    locals            \* None or <<the local variables assigned so far>>

ctlVars == <<pc, error, result, requests>>

walkerVars == <<mobj, page_id, current_page_id, playlist_id, entries, more_marker>>

infoVars == <<ie, info_args, data, target_idx, formats, info>>

sessionVars == <<credentials, cookies, ready, logged_in, nreq, calls, auth_info>>

pageVars == <<webpage, locals>>

vars == <<ctlVars, walkerVars, infoVars, sessionVars, pageVars>>

----------------------------------------------------------------------------
(* Python values *)

None == <<>>

Some(v) == <<v>>

\* bool(x) of an optional int: None and 0 are false
TruthyInt(x) == x # None /\ x[1] # 0

\* bool(x) of an optional string: None and '' are false
Truthy(x) == x # None /\ x[1] # ""

\* x or y, of optional strings
Or(x, y) == IF Truthy(x) THEN x ELSE y

\* bool(x) of an optional character string: None and '' are false
TruthyStr(x) == x # None /\ Len(x[1]) > 0

DigitChars == {"0", "1", "2", "3", "4", "5", "6", "7", "8", "9"}

DigitVal(c) ==
    CASE c = "0" -> 0 [] c = "1" -> 1 [] c = "2" -> 2 [] c = "3" -> 3
      [] c = "4" -> 4 [] c = "5" -> 5 [] c = "6" -> 6 [] c = "7" -> 7
      [] c = "8" -> 8 [] c = "9" -> 9

\* int(s) of a non-empty string of decimal digits
RECURSIVE int(_)
int(s) ==
    IF Len(s) = 0 THEN 0
    ELSE 10 * int(SubSeq(s, 1, Len(s) - 1)) + DigitVal(s[Len(s)])

RECURSIVE Concat(_)
Concat(ss) == IF ss = <<>> THEN <<>> ELSE Head(ss) \o Concat(Tail(ss))

StringsUpTo(chars, n) == UNION {[1..k -> chars] : k \in 0..n}

----------------------------------------------------------------------------
(* Bounds *)

\* listing pages are numbered 0..MaxPage
MaxPage == 3

\* the page number in a listing URL has at most this many digits
MaxPageDigits == 2

\* a listing page carries at most this many video links
MaxLinks == 2

\* data['targetUrls'] has at most this many entries
MaxTargets == 2

\* a manifest describes at most this many variants
MaxVariants == 2

\* the process is given at most this many URLs to extract
MaxRequests == 3

\* a scraped season has at most this many characters
MaxSeasonLen == 4

----------------------------------------------------------------------------
(* VierVideosIE: the listing pages of a program *)

Sites == {"vier", "vijf"}

\* (?P<page>\d+) of _VALID_URL: absent, or a non-empty string of digits
PageGroups ==
    {None} \cup
    {Some(s) : s \in {t \in StringsUpTo(DigitChars, MaxPageDigits) :
                        Len(t) > 0 /\ int(t) <= MaxPage}}

\* the hrefs re.findall finds on listing page p, in document order
PageLinks(p, n) == [i \in 1..n |-> <<p, i>>]

\* what a listing page is to the walker: its links and whether it
\* contains '>Meer<'
Responses(p) ==
    [links : {PageLinks(p, n) : n \in 0..MaxLinks}, more : BOOLEAN]

url_result(site, video_url) ==
    [url |-> <<"http://www.", site, ".be", video_url>>, ie_key |-> "Vier"]

page_entries(site, links) == [i \in 1..Len(links) |-> url_result(site, links[i])]

playlist_result(es, id) == [_type |-> "playlist", id |-> id, entries |-> es]

\* a loop that tests the marker the wrong way round
BreakCondition_inverted(pid, more) == TruthyInt(pid) \/ more

\* the loop's exit test
BreakCondition(pid, more) == TruthyInt(pid) \/ ~more

\* a loop over range(MaxPage + 1), which ends after page MaxPage
CountExhausted_range(p) == p > MaxPage

\* whether the loop's iterator has run out: itertools.count never does
CountExhausted(p) == FALSE

InfoIdle ==
    /\ ie = None
    /\ info_args = None
    /\ data = None
    /\ target_idx = 1
    /\ formats = <<>>
    /\ info = None

\* a process that was given no credentials and has run no extractor
SessionIdle ==
    /\ credentials = [username |-> None, password |-> None]
    /\ cookies = {}
    /\ ready = [e \in {"vrtnu", "vier"} |-> FALSE]
    /\ logged_in = None
    /\ nreq = 0
    /\ calls = <<>>
    /\ auth_info = None

PageIdle ==
    /\ webpage = None
    /\ locals = None

WalkerIdle ==
    /\ mobj = None
    /\ page_id = None
    /\ current_page_id = 0
    /\ playlist_id = None
    /\ entries = <<>>
    /\ more_marker = [p \in 0..MaxPage |-> FALSE]

InitWalker ==
    /\ pc = "videos_start"
    /\ error = None
    /\ result = None
    /\ requests = <<>>
    /\ \E site \in Sites, page \in PageGroups :
          mobj = Some([site |-> site, program |-> "demoestuin", page |-> page])
    /\ page_id = None
    /\ current_page_id = 0
    /\ playlist_id = None
    /\ entries = <<>>
    /\ more_marker \in [0..MaxPage -> BOOLEAN]
    /\ InfoIdle
    /\ SessionIdle
    /\ PageIdle

\* the URL match and the choice of start page and playlist id
VierVideos_match ==
    /\ pc = "videos_start"
    /\ LET page == mobj[1].page IN
         IF TruthyStr(page)
         THEN /\ page_id' = Some(int(page[1]))
              /\ current_page_id' = int(page[1])
              /\ playlist_id' = Some(<<mobj[1].program, "-page", int(page[1])>>)
         ELSE /\ page_id' = page
              /\ current_page_id' = 0
              /\ playlist_id' = Some(<<mobj[1].program>>)
    /\ entries' = <<>>
    /\ pc' = "videos_loop"
    /\ UNCHANGED <<error, result, requests, mobj, more_marker, infoVars,
                   sessionVars, pageVars>>

\* one iteration of the loop: download the page, collect its links, and
\* either leave the loop and return the playlist or go on to the next page
VierVideos_iterate ==
    /\ pc = "videos_loop"
    /\ IF CountExhausted(current_page_id)
       THEN /\ result' = Some(playlist_result(entries, playlist_id[1]))
            /\ pc' = "returned"
            /\ UNCHANGED <<requests, entries, current_page_id>>
       ELSE /\ current_page_id <= MaxPage
            /\ \E current_page \in Responses(current_page_id) :
                 LET es == entries \o page_entries(mobj[1].site, current_page.links) IN
                 /\ current_page.more = more_marker[current_page_id]
                 /\ requests' = Append(requests,
                       [url |-> <<"videos?page=", current_page_id>>, status |-> "ok",
                        more |-> current_page.more, links |-> current_page.links])
                 /\ entries' = es
                 /\ IF BreakCondition(page_id, current_page.more)
                    THEN /\ result' = Some(playlist_result(es, playlist_id[1]))
                         /\ pc' = "returned"
                         /\ UNCHANGED current_page_id
                    ELSE /\ current_page_id' = current_page_id + 1
                         /\ UNCHANGED <<result, pc>>
    /\ UNCHANGED <<error, mobj, page_id, playlist_id, more_marker, infoVars,
                   sessionVars, pageVars>>

\* _download_webpage is fatal: a failed download leaves the extractor
VierVideos_download_error ==
    /\ pc = "videos_loop"
    /\ ~CountExhausted(current_page_id)
    /\ current_page_id <= MaxPage
    /\ requests' = Append(requests,
          [url |-> <<"videos?page=", current_page_id>>, status |-> "error",
           more |-> FALSE, links |-> <<>>])
    /\ error' = Some("TransportError")
    /\ pc' = "raised"
    /\ UNCHANGED <<result, walkerVars, infoVars, sessionVars, pageVars>>

NextWalker ==
    \/ VierVideos_match
    \/ VierVideos_iterate
    \/ VierVideos_download_error

SpecWalker == InitWalker /\ [][NextWalker]_vars

\* _real_extract is straight-line code run by one thread: a statement that
\* can be executed is executed, and a download returns or raises
SpecWalkerFair ==
    /\ InitWalker
    /\ [][NextWalker]_vars
    /\ WF_vars(VierVideos_match)
    /\ WF_vars(VierVideos_iterate)

----------------------------------------------------------------------------
(* CanvasIE._extract_info: the formats of a media asset *)

ManifestTypes == {"HLS", "HDS", "MPEG_DASH"}

\* an entry of data['targetUrls']: target.get('url'), target.get('type')
Targets ==
    [url : {None, Some(""), Some("u"), Some("v")},
     type : {None, Some("HLS"), Some("HDS"), Some("MPEG_DASH"), Some("MP4")}]

TargetLists(n) == UNION {[1..k -> Targets] : k \in 0..n}

\* the JSON of the media-asset API; the key targetUrls may be missing
AssetResponses ==
    [targetUrls : {None} \cup {Some(l) : l \in TargetLists(MaxTargets)}]

\* what happens to a manifest: it cannot be downloaded or parsed, or it
\* describes n variants
ManifestOutcomes ==
    {[ok |-> FALSE, variants |-> 0]} \cup
    {[ok |-> TRUE, variants |-> n] : n \in 0..MaxVariants}

\* the formats _extract_m3u8_formats, _extract_f4m_formats and
\* _extract_mpd_formats make of a manifest with n variants
manifest_formats(format_type, format_url, n) ==
    [i \in 1..n |-> [format_id |-> <<format_type, i>>,
                     url |-> <<format_url, i>>,
                     manifest |-> format_type]]

\* an extraction of MPEG-DASH manifests that does not pass fatal=False
ManifestFatal_dash(format_type) == format_type = "MPEG_DASH"

\* the fatal argument of the three manifest extractions
ManifestFatal(format_type) == FALSE

\* a descriptor whose format_id is taken from the url
opaque_format_id_from_url(format_type, format_url) ==
    [format_id |-> format_url, url |-> format_url, manifest |-> "none"]

\* the dictionary appended for a type that is no manifest type
opaque_format(format_type, format_url) ==
    [format_id |-> format_type, url |-> format_url, manifest |-> "none"]

IsAdaptive(f) == f.manifest \in ManifestTypes

IsOpaque(f) == ~IsAdaptive(f)

\* _sort_formats orders the formats by preference, stably
sorted_formats(fs) == SelectSeq(fs, IsAdaptive) \o SelectSeq(fs, IsOpaque)

InitResolver ==
    /\ pc = "info_start"
    /\ error = None
    /\ result = None
    /\ requests = <<>>
    /\ WalkerIdle
    /\ ie = None
    /\ \E site_id \in {"canvas", "een", "vrtvideo"} :
          info_args = Some([site_id |-> site_id, video_id |-> Some("mz-ast-1"),
                            display_id |-> "slug"])
    /\ data = None
    /\ target_idx = 1
    /\ formats = <<>>
    /\ info = None
    /\ SessionIdle
    /\ PageIdle

AssetRequest(status) ==
    [url |-> <<"assets", info_args[1].site_id, info_args[1].video_id>>,
     status |-> status]

\* data = self._download_json(...); formats = []
ExtractInfo_download(responses) ==
    /\ pc = "info_start"
    /\ \E d \in responses :
         /\ data' = Some(d)
         /\ IF d.targetUrls = None
            THEN error' = Some("KeyError") /\ pc' = "raised"
            ELSE pc' = "info_loop" /\ UNCHANGED error
    /\ requests' = Append(requests, AssetRequest("ok"))
    /\ formats' = <<>>
    /\ target_idx' = 1
    /\ UNCHANGED <<result, walkerVars, ie, info_args, info, sessionVars, pageVars>>

ExtractInfo_download_error ==
    /\ pc = "info_start"
    /\ requests' = Append(requests, AssetRequest("error"))
    /\ error' = Some("TransportError")
    /\ pc' = "raised"
    /\ UNCHANGED <<result, walkerVars, infoVars, sessionVars, pageVars>>

ManifestRequest(idx, format_url, outcome) ==
    [url |-> <<"manifest", format_url>>, target |-> idx,
     status |-> IF outcome.ok THEN "ok" ELSE "error",
     variants |-> outcome.variants]

\* one iteration of `for target in data['targetUrls']`
ExtractInfo_target ==
    /\ pc = "info_loop"
    /\ target_idx <= Len(data[1].targetUrls[1])
    /\ LET target == data[1].targetUrls[1][target_idx]
           format_url == target.url
           format_type == target.type
       IN  IF ~Truthy(format_url) \/ ~Truthy(format_type)
           THEN /\ target_idx' = target_idx + 1
                /\ UNCHANGED <<formats, requests, error, pc>>
           ELSE IF format_type[1] \in ManifestTypes
           THEN \E outcome \in ManifestOutcomes :
                  /\ requests' = Append(requests,
                        ManifestRequest(target_idx, format_url[1], outcome))
                  /\ IF ~outcome.ok
                     THEN IF ManifestFatal(format_type[1])
                          THEN /\ error' = Some("ManifestError")
                               /\ pc' = "raised"
                               /\ UNCHANGED <<formats, target_idx>>
                          ELSE /\ target_idx' = target_idx + 1
                               /\ UNCHANGED <<formats, error, pc>>
                     ELSE /\ formats' = formats \o manifest_formats(
                                format_type[1], format_url[1], outcome.variants)
                          /\ target_idx' = target_idx + 1
                          /\ UNCHANGED <<error, pc>>
           ELSE /\ formats' = Append(formats,
                      opaque_format(format_type[1], format_url[1]))
                /\ target_idx' = target_idx + 1
                /\ UNCHANGED <<requests, error, pc>>
    /\ UNCHANGED <<result, walkerVars, ie, info_args, data, info, sessionVars, pageVars>>

\* self._sort_formats(formats), which raises when there is no format, and
\* the dictionary returned
ExtractInfo_return ==
    /\ pc = "info_loop"
    /\ target_idx > Len(data[1].targetUrls[1])
    /\ IF formats = <<>>
       THEN /\ error' = Some("NoPlayableFormats")
            /\ pc' = "raised"
            /\ UNCHANGED <<formats, info>>
       ELSE /\ formats' = sorted_formats(formats)
            /\ info' = Some([id |-> info_args[1].video_id,
                             display_id |-> info_args[1].display_id,
                             formats |-> sorted_formats(formats)])
            /\ pc' = "info_returned"
            /\ UNCHANGED error
    /\ UNCHANGED <<result, requests, walkerVars, ie, info_args, data, target_idx,
                   sessionVars, pageVars>>

NextResolver ==
    \/ ExtractInfo_download(AssetResponses)
    \/ ExtractInfo_download_error
    \/ ExtractInfo_target
    \/ ExtractInfo_return

SpecResolver == InitResolver /\ [][NextResolver]_vars

\* the list the loop of _extract_info walks, once it was downloaded
TargetList == data[1].targetUrls[1]

ManifestRequestsOf(i) ==
    {j \in 1..Len(requests) :
        "target" \in DOMAIN requests[j] /\ requests[j].target = i}

\* the number of usable formats entry i of the list stands for: none without
\* url or type, the variants of its manifest (none if that failed), or one
EntryYield(i) ==
    LET t == TargetList[i] IN
    IF ~Truthy(t.url) \/ ~Truthy(t.type) THEN 0
    ELSE IF t.type[1] \in ManifestTypes
         THEN IF ManifestRequestsOf(i) = {} THEN 0
              ELSE requests[CHOOSE j \in ManifestRequestsOf(i) : TRUE].variants
         ELSE 1

RECURSIVE YieldUpTo(_)
YieldUpTo(n) == IF n = 0 THEN 0 ELSE YieldUpTo(n - 1) + EntryYield(n)

ListProcessed == target_idx > Len(TargetList) /\ pc # "info_loop"

\* C3: no manifest that fails to parse raises, the loop goes on with the next
\* entry, and after the whole list (the empty list included) the resolver
\* raises NoPlayableFormats exactly when the entries yielded no format.
C3_SoftFail ==
    (pc \in {"info_loop", "info_returned", "raised"} /\ data # None
        /\ data[1].targetUrls # None) =>
        /\ error \in {None, Some("NoPlayableFormats")}
        /\ \A j \in 1..Len(requests) :
              ("target" \in DOMAIN requests[j] /\ requests[j].status = "error")
                  => target_idx > requests[j].target
        /\ Len(formats) = YieldUpTo(target_idx - 1)
        /\ error # None => ListProcessed
        /\ ListProcessed =>
              /\ error = Some("NoPlayableFormats") <=> YieldUpTo(Len(TargetList)) = 0
              /\ error = None <=>
                    (info # None /\ Len(info[1].formats) = YieldUpTo(Len(TargetList)))

\* a manifest failed, a later entry was still processed, and formats
\* were returned
C3_Witness ==
    /\ pc = "info_returned"
    /\ \E j \in 1..Len(requests) :
          /\ "target" \in DOMAIN requests[j]
          /\ requests[j].status = "error"
          /\ requests[j].target < Len(TargetList)
    /\ Len(info[1].formats) >= 1

\* the formats list: that of the dictionary returned, and until then the list
\* built so far
OutputFormats == IF info # None THEN info[1].formats ELSE formats

\* the entries of the list the loop has gone through
ProcessedEntries == 1..(target_idx - 1)

\* an entry without url or without type (absent or empty)
LacksUrlOrType(t) == ~Truthy(t.url) \/ ~Truthy(t.type)

\* an entry with url and a type other than HLS, HDS and MPEG_DASH
IsOpaqueEntry(t) == ~LacksUrlOrType(t) /\ t.type[1] \notin ManifestTypes

IsManifestEntry(t) == ~LacksUrlOrType(t) /\ t.type[1] \in ManifestTypes

HasURL(f) ==
    IF IsAdaptive(f) THEN Len(f.url) > 0 /\ f.url[1] # "" ELSE f.url # ""

\* the descriptors of the output that carry the type tag and the url of t
DescriptorsOf(t) ==
    {k \in 1..Len(OutputFormats) :
        /\ IsOpaque(OutputFormats[k])
        /\ OutputFormats[k].format_id = t.type[1]
        /\ OutputFormats[k].url = t.url[1]}

\* C11: every descriptor of the formats list carries a non-empty url; an entry
\* without url or without type adds no descriptor and raises nothing (nothing
\* is raised before the whole list was gone through, every descriptor stems
\* from an entry that has both, and there are as many opaque descriptors as
\* opaque entries); an entry with url and a type other than HLS, HDS and
\* MPEG_DASH adds exactly one descriptor, with format_id the type tag and url
\* the entry's url.
C11_PerEntryContribution ==
    (pc \in {"info_loop", "info_returned", "raised"} /\ data # None
        /\ data[1].targetUrls # None) =>
        /\ \A k \in 1..Len(OutputFormats) : HasURL(OutputFormats[k])
        /\ error # None => (ListProcessed /\ OutputFormats = <<>>)
        /\ \A k \in 1..Len(OutputFormats) :
              IF IsAdaptive(OutputFormats[k])
              THEN \E j \in ProcessedEntries :
                     /\ IsManifestEntry(TargetList[j])
                     /\ TargetList[j].type[1] = OutputFormats[k].manifest
                     /\ TargetList[j].url[1] = OutputFormats[k].url[1]
              ELSE \E j \in ProcessedEntries :
                     /\ IsOpaqueEntry(TargetList[j])
                     /\ k \in DescriptorsOf(TargetList[j])
        /\ Cardinality({k \in 1..Len(OutputFormats) : IsOpaque(OutputFormats[k])})
              = Cardinality({j \in ProcessedEntries : IsOpaqueEntry(TargetList[j])})
        /\ \A i \in ProcessedEntries :
              IsOpaqueEntry(TargetList[i]) =>
                 Cardinality(DescriptorsOf(TargetList[i]))
                   = Cardinality({j \in ProcessedEntries :
                                     TargetList[j] = TargetList[i]})

\* a list of an entry without url and an entry of an opaque type was gone
\* through, and the formats returned are the one descriptor of the latter
C11_Witness ==
    /\ pc = "info_returned"
    /\ Len(TargetList) = 2
    /\ TargetList[1].url = None /\ TargetList[1].type = Some("MP4")
    /\ IsOpaqueEntry(TargetList[2])
    /\ info[1].formats = <<opaque_format("MP4", TargetList[2].url[1])>>

----------------------------------------------------------------------------
(* The session: InfoExtractor.extract, VrtNUIE._login, VierIE._login *)

GatedExtractors == {"vrtnu", "vier"}

\* what _get_login_info may return
Credentials ==
    {[username |-> None, password |-> None],
     [username |-> Some("user"), password |-> None],
     [username |-> Some("user"), password |-> Some("secret")]}

GigyaCookies == {"ucid", "gmid"}

\* the keys _login reads from auth_info
AuthKeys == {"UID", "UIDSignature", "signatureTimestamp", "profile.email"}

LoginPcs == {"login_post", "login_saved", "login_token"}

\* VrtNUIE keeps no flag: it is logged in when the jar holds the cookies the
\* token endpoint sets; VierIE keeps _logged_in
SessionState(e) ==
    IF e = "vrtnu"
    THEN IF "vrt_token" \in cookies THEN "LoggedIn"
         ELSE IF ie = Some("vrtnu") /\ pc \in LoginPcs THEN "Authenticating"
         ELSE "LoggedOut"
    ELSE IF logged_in = Some(TRUE) THEN "LoggedIn" ELSE "LoggedOut"

SessionRequest(name, status) ==
    [url |-> <<name>>, status |-> status, req |-> nreq, ie |-> ie[1]]

LoginCall(e) ==
    [ie |-> e, req |-> nreq, at |-> Len(requests), state |-> SessionState(e)]

Raise(kind) == error' = Some(kind) /\ pc' = "raised"

\* a login that goes on without a username
LoginRequired_never(username) == FALSE

\* `if username is None: self.raise_login_required()`
LoginRequired(username) == username = None

\* a cookie test that is content with either cookie
MissingCookies_both(gigya_cookies) ==
    "ucid" \notin gigya_cookies /\ "gmid" \notin gigya_cookies

\* `if 'ucid' not in gigya_cookies or 'gmid' not in gigya_cookies`
MissingCookies(gigya_cookies) ==
    "ucid" \notin gigya_cookies \/ "gmid" \notin gigya_cookies

\* a token request made with fatal=False
TokenRequestFatal_not == FALSE

\* _request_webpage('https://token.vrt.be', ...) is fatal (the default)
TokenRequestFatal == TRUE

\* a _real_extract that downloads the page without calling _login
VierCallsLogin_never(flag) == FALSE

\* `if not self._logged_in: self._login(site)`
VierCallsLogin(flag) == flag # Some(TRUE)

\* the groups of the URLs matched by VierIE._VALID_URL: a display id with or
\* without a numeric id, or an embed id
VierURLs ==
    {[site |-> "vier", display_id |-> Some("slug"), id |-> None, embed_id |-> None],
     [site |-> "vier", display_id |-> Some("slug"), id |-> Some("16129"),
      embed_id |-> None],
     [site |-> "vijf", display_id |-> None, id |-> None, embed_id |-> Some("4093")]}

VrtNUURLs == {[id |-> "trapped-s1a4"]}

\* the URLs of a session run
SessionURL(e) ==
    IF e = "vrtnu" THEN [id |-> "trapped-s1a4"]
    ELSE [site |-> "vier", display_id |-> Some("slug"), id |-> Some("16129"),
          embed_id |-> None]

InitSession ==
    /\ pc = "idle"
    /\ error = None
    /\ result = None
    /\ requests = <<>>
    /\ WalkerIdle
    /\ InfoIdle
    /\ credentials \in Credentials
    /\ cookies = {}
    /\ ready = [e \in GatedExtractors |-> FALSE]
    /\ logged_in = None
    /\ nreq = 0
    /\ calls = <<>>
    /\ auth_info = None
    /\ PageIdle

\* InfoExtractor.extract: the next URL is handed to extractor e, which is
\* initialized first unless it is ready
Extract_begin(e, url) ==
    /\ pc \in {"idle", "returned", "raised"}
    /\ nreq < MaxRequests
    /\ nreq' = nreq + 1
    /\ ie' = Some(e)
    /\ mobj' = Some(url)
    /\ error' = None
    /\ result' = None
    /\ webpage' = None
    /\ locals' = None
    /\ pc' = IF ready[e] THEN IF e = "vrtnu" THEN "vrtnu_real_extract"
                                            ELSE "vier_real_extract"
             ELSE IF e = "vrtnu" THEN "vrtnu_real_initialize"
                                 ELSE "vier_real_initialize"
    /\ UNCHANGED <<requests, page_id, current_page_id, playlist_id, entries,
                   more_marker, info_args, data, target_idx, formats, info, credentials,
                   cookies, ready, logged_in, calls, auth_info>>

\* VrtNUIE._real_initialize calls _login, which reads the credentials
VrtNU_real_initialize ==
    /\ pc = "vrtnu_real_initialize"
    /\ calls' = Append(calls, LoginCall("vrtnu"))
    /\ IF LoginRequired(credentials.username)
       THEN Raise("LoginRequired")
       ELSE pc' = "login_post" /\ UNCHANGED error
    /\ UNCHANGED <<result, requests, walkerVars, infoVars, credentials, cookies,
                   ready, logged_in, nreq, auth_info, pageVars>>

\* step 1: the credentials are posted to accounts.login and the cookies
\* of the identity provider are inspected
VrtNU_login_post ==
    /\ pc = "login_post"
    /\ \E ok \in BOOLEAN, set_cookies \in SUBSET GigyaCookies :
         /\ ok \/ set_cookies = {}
         /\ requests' = Append(requests,
               SessionRequest("accounts.login", IF ok THEN "ok" ELSE "error"))
         /\ cookies' = cookies \cup set_cookies
         /\ IF ~ok THEN Raise("TransportError")
            ELSE IF MissingCookies(cookies \cup set_cookies)
                 THEN Raise("LoginFailed")
                 ELSE pc' = "login_saved" /\ UNCHANGED error
    /\ UNCHANGED <<result, walkerVars, infoVars, credentials, ready, logged_in,
                   nreq, calls, auth_info, pageVars>>

\* what socialize.getSavedResponse may answer: whether the body matches
\* DUMMY({...});, whether the braces hold JSON, and the keys of that JSON
SavedResponses ==
    [jsonp : BOOLEAN, json : BOOLEAN, keys : SUBSET AuthKeys]

\* step 2: the saved response is fetched and its JSONP wrapper removed
VrtNU_login_saved_response ==
    /\ pc = "login_saved"
    /\ \E ok \in BOOLEAN, saved_response \in SavedResponses :
         /\ requests' = Append(requests,
               SessionRequest("socialize.getSavedResponse",
                              IF ok THEN "ok" ELSE "error"))
         /\ IF ~ok THEN Raise("TransportError") /\ UNCHANGED auth_info
            ELSE IF ~saved_response.jsonp
                 THEN Raise("RegexNotFoundError") /\ UNCHANGED auth_info
            ELSE IF ~saved_response.json
                 THEN Raise("ExtractorError") /\ UNCHANGED auth_info
            ELSE /\ auth_info' = Some(saved_response.keys)
                 /\ pc' = "login_token"
                 /\ UNCHANGED error
    /\ UNCHANGED <<result, walkerVars, infoVars, credentials, cookies, ready,
                   logged_in, nreq, calls, pageVars>>

\* step 3: the assertion is posted to token.vrt.be, which sets the cookies of
\* the site; _login and _real_initialize return and the extractor is ready
VrtNU_login_token ==
    /\ pc = "login_token"
    /\ auth_info' = None
    /\ IF ~(AuthKeys \subseteq auth_info[1])
       THEN /\ Raise("KeyError")
            /\ UNCHANGED <<requests, cookies, ready>>
       ELSE \E ok \in BOOLEAN :
            /\ requests' = Append(requests,
                  SessionRequest("token.vrt.be", IF ok THEN "ok" ELSE "error"))
            /\ cookies' = IF ok THEN cookies \cup {"vrt_token"} ELSE cookies
            /\ IF ok \/ ~TokenRequestFatal
               THEN /\ ready' = [ready EXCEPT !["vrtnu"] = TRUE]
                    /\ pc' = "vrtnu_real_extract"
                    /\ UNCHANGED error
               ELSE /\ Raise("TransportError")
                    /\ UNCHANGED ready
    /\ UNCHANGED <<result, walkerVars, infoVars, credentials, logged_in, nreq,
                   calls, pageVars>>

\* the main fetch: webpage = self._download_webpage(url, display_id)
VrtNU_download_webpage(pages) ==
    /\ pc = "vrtnu_real_extract"
    /\ \E ok \in BOOLEAN, page \in pages :
         /\ requests' = Append(requests,
               SessionRequest("webpage", IF ok THEN "ok" ELSE "error"))
         /\ IF ok
            THEN webpage' = Some(page) /\ pc' = "vrtnu_page" /\ UNCHANGED error
            ELSE Raise("TransportError") /\ UNCHANGED webpage
    /\ UNCHANGED <<result, walkerVars, infoVars, sessionVars, locals>>

\* VierIE._real_initialize
Vier_real_initialize ==
    /\ pc = "vier_real_initialize"
    /\ logged_in' = Some(FALSE)
    /\ ready' = [ready EXCEPT !["vier"] = TRUE]
    /\ pc' = "vier_real_extract"
    /\ UNCHANGED <<error, result, requests, walkerVars, infoVars, credentials,
                   cookies, nreq, calls, auth_info, pageVars>>

\* the start of VierIE._real_extract: the URL is matched and, unless
\* _logged_in, _login is called; _login returns at its first statement
Vier_match_and_login ==
    /\ pc = "vier_real_extract"
    /\ locals' = Some([display_id |-> Or(mobj[1].display_id, mobj[1].embed_id),
                       video_id |-> Or(mobj[1].id, mobj[1].embed_id)])
    /\ calls' = IF VierCallsLogin(logged_in)
                THEN Append(calls, LoginCall("vier")) ELSE calls
    /\ pc' = "vier_download"
    /\ UNCHANGED <<error, result, requests, walkerVars, infoVars, credentials,
                   cookies, ready, logged_in, nreq, auth_info, webpage>>

\* the main fetch: webpage = self._download_webpage(url, display_id)
Vier_download_webpage(pages) ==
    /\ pc = "vier_download"
    /\ \E ok \in BOOLEAN, page \in pages :
         /\ requests' = Append(requests,
               SessionRequest("webpage", IF ok THEN "ok" ELSE "error"))
         /\ IF ok
            THEN webpage' = Some(page) /\ pc' = "vier_page" /\ UNCHANGED error
            ELSE Raise("TransportError") /\ UNCHANGED webpage
    /\ UNCHANGED <<result, walkerVars, infoVars, sessionVars, locals>>

\* the page of a session run: its content plays no part in the session
AnyPage == [content |-> "any"]

\* the remainder of _real_extract after the main fetch, which neither reads
\* nor writes the session (SpecFields follows it statement by statement)
RealExtract_rest ==
    /\ pc \in {"vrtnu_page", "vier_page"}
    /\ \E returns \in BOOLEAN :
         IF returns
         THEN result' = Some(AnyPage) /\ pc' = "returned" /\ UNCHANGED error
         ELSE Raise("ExtractorError") /\ UNCHANGED result
    /\ UNCHANGED <<requests, walkerVars, infoVars, sessionVars, pageVars>>

NextSession ==
    \/ \E e \in GatedExtractors : Extract_begin(e, SessionURL(e))
    \/ VrtNU_real_initialize
    \/ VrtNU_login_post
    \/ VrtNU_login_saved_response
    \/ VrtNU_login_token
    \/ VrtNU_download_webpage({AnyPage})
    \/ Vier_real_initialize
    \/ Vier_match_and_login
    \/ Vier_download_webpage({AnyPage})
    \/ RealExtract_rest

SpecSession == InitSession /\ [][NextSession]_vars

LoginEndpoints == {"accounts.login", "socialize.getSavedResponse", "token.vrt.be"}

HandshakeSteps == <<"accounts.login", "socialize.getSavedResponse", "token.vrt.be">>

IsLoginRequest(q) == q.url[1] \in LoginEndpoints

\* the positions in `requests` of the handshake of extraction request r
HandshakeOf(r) ==
    {j \in 1..Len(requests) : requests[j].req = r /\ IsLoginRequest(requests[j])}

\* the positions in `requests` of the main fetch of extraction request r
MainFetchOf(r) ==
    {j \in 1..Len(requests) : requests[j].req = r /\ requests[j].url[1] = "webpage"}

CallsOf(r) == {i \in 1..Len(calls) : calls[i].req = r}

\* the handshake of request r went through its three steps without error
Completed(r) ==
    /\ Cardinality(HandshakeOf(r)) = 3
    /\ \A j \in HandshakeOf(r) : requests[j].status = "ok"

PostCompleted(r) ==
    \E j \in HandshakeOf(r) :
        requests[j].url[1] = "accounts.login" /\ requests[j].status = "ok"

\* C4: once the credential POST of a handshake has completed and the cookies
\* of the identity provider lack ucid or gmid, the handshake has raised
\* LoginFailed, neither the saved response nor the token was requested, and
\* the session is LoggedOut.
C4_MissingCookies ==
    (ie = Some("vrtnu") /\ PostCompleted(nreq)
        /\ ~(GigyaCookies \subseteq cookies)) =>
        /\ error = Some("LoginFailed")
        /\ pc = "raised"
        /\ \A j \in HandshakeOf(nreq) : requests[j].url[1] = "accounts.login"
        /\ MainFetchOf(nreq) = {}
        /\ SessionState("vrtnu") = "LoggedOut"
        /\ ~ready["vrtnu"]

\* the POST went through but gmid is missing
C4_Witness ==
    /\ ie = Some("vrtnu")
    /\ PostCompleted(nreq)
    /\ "ucid" \in cookies
    /\ "gmid" \notin cookies
    /\ error = Some("LoginFailed")

\* C5: the requests of every handshake are an initial part of credential POST,
\* saved-response fetch, token exchange, in that order and each once; nothing
\* follows a step that failed, which leaves the extractor with the session
\* LoggedOut; and the session is LoggedIn only when all three steps of one
\* handshake completed without error.
C5_HandshakeOrder ==
    /\ \A r \in 1..nreq :
          LET h == HandshakeOf(r) IN
          /\ Cardinality(h) <= 3
          /\ \A j \in h :
                /\ requests[j].url[1] =
                      HandshakeSteps[Cardinality({k \in h : k <= j})]
                /\ requests[j].status = "error" =>
                      /\ \A k \in 1..Len(requests) : requests[k].req = r => k <= j
                      /\ r = nreq => pc = "raised" /\ error # None
    /\ (ie = Some("vrtnu") /\ pc = "raised" /\ MainFetchOf(nreq) = {}) =>
          /\ SessionState("vrtnu") = "LoggedOut"
          /\ ~ready["vrtnu"]
    /\ pc \in LoginPcs => SessionState("vrtnu") = "Authenticating"
    /\ SessionState("vrtnu") = "LoggedIn" <=> \E r \in 1..nreq : Completed(r)
    /\ ready["vrtnu"] <=> SessionState("vrtnu") = "LoggedIn"
    /\ \A r \in 1..nreq :
          (MainFetchOf(r) # {} /\ \A j \in MainFetchOf(r) : requests[j].ie = "vrtnu")
              => \E q \in 1..r : Completed(q)

\* a handshake failed at its second step and the next one went through
C5_Witness ==
    /\ SessionState("vrtnu") = "LoggedIn"
    /\ pc = "vrtnu_page"
    /\ \E r \in 1..nreq :
          /\ Cardinality(HandshakeOf(r)) = 2
          /\ \E j \in HandshakeOf(r) : requests[j].status = "error"

VrtNUCalls == {i \in 1..Len(calls) : calls[i].ie = "vrtnu"}

StartedBeforeMainFetch ==
    \A r \in 1..nreq :
        /\ Cardinality(CallsOf(r)) <= 1
        /\ \A i \in CallsOf(r), j \in MainFetchOf(r) : calls[i].at < j

StartedOnlyWhenNotLoggedIn ==
    \A i \in 1..Len(calls) : calls[i].state # "LoggedIn"

\* C6 as it was claimed: over any sequence of extraction requests at most one
\* handshake runs (here: gets as far as posting the credentials), before the
\* main fetch of the request that starts it, and only when the session is
\* not LoggedIn.
C6_HandshakeAtMostOnce ==
    /\ Cardinality({r \in 1..nreq : HandshakeOf(r) # {}}) <= 1
    /\ StartedBeforeMainFetch
    /\ StartedOnlyWhenNotLoggedIn

\* C6 amended: every request starts at most one handshake, always before its
\* main fetch and only while the session is not LoggedIn; a request whose
\* main fetch was made without a handshake found vrtnu LoggedIn by an earlier
\* request; at most one handshake ever goes through its three steps, and
\* after it no handshake is started again.
C6_HandshakePerRequestUntilLoggedIn ==
    /\ StartedBeforeMainFetch
    /\ StartedOnlyWhenNotLoggedIn
    /\ \A r \in 1..nreq :
          (MainFetchOf(r) # {} /\ CallsOf(r) = {}) =>
              /\ \A j \in MainFetchOf(r) : requests[j].ie = "vrtnu"
              /\ \E q \in 1..(r - 1) : Completed(q)
    /\ Cardinality({r \in 1..nreq : Completed(r)}) <= 1
    /\ \A q \in 1..nreq : Completed(q) =>
          \A i \in VrtNUCalls : calls[i].req <= q

\* a first handshake failed, the second request started another one, which
\* went through, and the third request fetched its page without a handshake
C6_Witness ==
    /\ nreq = 3
    /\ pc = "vrtnu_page"
    /\ Cardinality(VrtNUCalls) = 2
    /\ Completed(2)
    /\ CallsOf(3) = {}

NoCredentials == credentials.username = None

\* C10 as it was claimed: once _login was called for a request made without
\* credentials, LoginRequired was raised, no request went out, the session is
\* LoggedOut and the extraction is over.
C10_LoginRequiredEverywhere ==
    (NoCredentials /\ CallsOf(nreq) # {}) =>
        /\ error = Some("LoginRequired")
        /\ pc = "raised"
        /\ \A j \in 1..Len(requests) : requests[j].req # nreq
        /\ SessionState(ie[1]) = "LoggedOut"

\* C10 amended: that holds of vrtnu; for vier and vijf _login returns at once,
\* nothing is raised for want of credentials, no login request goes out, the
\* session stays LoggedOut and the extraction goes on to the main fetch.
C10_LoginRequiredVrtNU ==
    (NoCredentials /\ CallsOf(nreq) # {}) =>
        /\ SessionState(ie[1]) = "LoggedOut"
        /\ HandshakeOf(nreq) = {}
        /\ ie = Some("vrtnu") =>
              /\ error = Some("LoginRequired")
              /\ pc = "raised"
              /\ \A j \in 1..Len(requests) : requests[j].req # nreq
        /\ ie = Some("vier") =>
              /\ error # Some("LoginRequired")
              /\ pc \in {"vier_download", "vier_page", "returned", "raised"}
              /\ pc = "raised" => MainFetchOf(nreq) # {}

\* vrtnu content was requested without credentials
C10_Witness ==
    /\ NoCredentials
    /\ ie = Some("vrtnu")
    /\ CallsOf(nreq) # {}
    /\ error = Some("LoginRequired")
    /\ requests = <<>>

----------------------------------------------------------------------------
(* VrtNUIE._real_extract: the season number *)

SeasonChars == {"0", "1", "2", "3", "5", "9", "-", "a"}

\* what the season patterns may capture, cleaned of HTML and stripped
SeasonStrings == StringsUpTo(SeasonChars, MaxSeasonLen)

IsDigits(s) == Len(s) > 0 /\ \A i \in 1..Len(s) : s[i] \in DigitChars

\* int_or_none(v): None for None and for what int() rejects
int_or_none(v) ==
    IF v = None THEN None
    ELSE IF IsDigits(v[1]) THEN Some(int(v[1]))
    ELSE IF Len(v[1]) > 1 /\ v[1][1] = "-" /\ IsDigits(Tail(v[1]))
         THEN Some(0 - int(Tail(v[1])))
    ELSE None

\* the literal of `season_number > 1000`
YearThreshold == 1000

\* a test that also discards the season 1000
SeasonNumber_inclusive(season) ==
    LET season_number == int_or_none(season) IN
    IF TruthyInt(season_number) /\ season_number[1] >= YearThreshold
    THEN None ELSE season_number

\* season_number = int_or_none(season), discarded when it looks like a year
SeasonNumber(season) ==
    LET season_number == int_or_none(season) IN
    IF TruthyInt(season_number) /\ season_number[1] > YearThreshold
    THEN None ELSE season_number

InitSeason ==
    /\ pc = "vrtnu_season"
    /\ error = None
    /\ result = None
    /\ requests = <<>>
    /\ WalkerIdle
    /\ InfoIdle
    /\ SessionIdle
    /\ webpage \in {Some([season |-> s]) : s \in {None} \cup
                                   {Some(t) : t \in SeasonStrings}}
    /\ locals = None

\* season = self._html_search_regex(..., default=None) and the season number
VrtNU_season ==
    /\ pc = "vrtnu_season"
    /\ locals' = Some([season |-> webpage[1].season,
                       season_number |-> SeasonNumber(webpage[1].season)])
    /\ pc' = "vrtnu_season_done"
    /\ UNCHANGED <<error, result, requests, walkerVars, infoVars, sessionVars,
                   webpage>>

NextSeason == VrtNU_season

SpecSeason == InitSeason /\ [][NextSeason]_vars

\* the integer a string of an optional minus sign and digits denotes
DenotedInt(s) ==
    IF s[1] = "-" THEN 0 - int(Tail(s)) ELSE int(s)

DenotesInt(s) ==
    \/ IsDigits(s)
    \/ Len(s) > 1 /\ s[1] = "-" /\ IsDigits(Tail(s))

\* C8: the season number is absent when the scraped season is no integer or
\* an integer above 1000, and is the integer itself up to 1000 (0 and 1000
\* included).
C8_SeasonHeuristic ==
    pc = "vrtnu_season_done" =>
        LET s == locals[1].season
            n == locals[1].season_number
        IN  /\ s = webpage[1].season
            /\ (s = None \/ ~DenotesInt(s[1])) => n = None
            /\ (s # None /\ DenotesInt(s[1])) =>
                  IF DenotedInt(s[1]) > 1000 THEN n = None
                  ELSE n = Some(DenotedInt(s[1]))

\* the season "1000" is kept
C8_Witness ==
    /\ pc = "vrtnu_season_done"
    /\ locals[1].season = Some(<<"1", "0", "0", "0">>)
    /\ locals[1].season_number = Some(1000)

----------------------------------------------------------------------------
(* _real_extract of CanvasIE, VrtNUIE and VierIE: the fields of the record *)

\* str.strip() on the titles of the model
strip(t) == IF t = " T " THEN "T" ELSE t

\* remove_end(s, ' | Vier') on the titles of the model
remove_end(t) ==
    CASE t = "T | Vier" -> "T"
      [] t = "Aflevering 4 | Vier" -> "Aflevering 4"
      [] OTHER -> t

\* what (?i)aflevering (\d+) finds in a title of the model
episode_in(t) == IF t = "Aflevering 4" THEN Some(<<"4">>) ELSE None

\* parse_iso8601 on the dates of the model
parse_iso8601(d) ==
    IF d = Some("2016-05-01T20:00:00+00:00") THEN Some(1462132800) ELSE None

\* what the patterns of CanvasIE._real_extract find in a page
CanvasPages ==
    [h1_title : {None, Some(" T ")}, og_title : {None, Some("OG")},
     og_description : {None, Some("D")}, data_video : {None, Some("mz-ast-1")}]

CanvasURLs == {[site_id |-> "canvas", id |-> "slug"], [site_id |-> "een", id |-> "slug"]}

\* what the patterns of VrtNUIE._real_extract find in a page
VrtNUPages ==
    [title : {None, Some(" T ")}, description : {None, Some("D")},
     season : {None, Some(<<"3">>), Some(<<"2", "0", "1", "5">>)},
     episode : {None, Some(<<"4">>)},
     release_date : {None, Some("2016-05-01T20:00:00+00:00")}]

\* the values of the .securevideo.json dictionary, in order
SecureVideoValues ==
    {<<>>, <<[mzid |-> None]>>, <<[mzid |-> Some("mz-ast-2")]>>}

\* what the patterns of VierIE._real_extract find in a page
VierPages ==
    [data_file : {None, Some("16129"), Some("uuid-1")},
     og_title : {None, Some("T | Vier"), Some("Aflevering 4 | Vier")},
     description : {None, Some("D")},
     thumbnail : {None, Some("t.jpg")},
     series : {None, Some("Plan B")},
     tags : {<<>>, <<"Moestuin", "Wim">>}]

\* json['video']['S'] of the content API, None when a key is missing
VierContents == {[S |-> None], [S |-> Some("playlist.m3u8")]}

\* the asset API as the extractor runs see it: no entry, a plain file or
\* an HLS manifest
ExtractorAssetResponses ==
    [targetUrls : {Some(<<>>),
                   Some(<<[url |-> Some("u"), type |-> Some("MP4")]>>),
                   Some(<<[url |-> Some("u"), type |-> Some("HLS")]>>)}]

InitFields ==
    /\ error = None
    /\ result = None
    /\ requests = <<>>
    /\ page_id = None
    /\ current_page_id = 0
    /\ playlist_id = None
    /\ entries = <<>>
    /\ more_marker = [p \in 0..MaxPage |-> FALSE]
    /\ info_args = None
    /\ data = None
    /\ target_idx = 1
    /\ formats = <<>>
    /\ info = None
    /\ nreq = 1
    /\ calls = <<>>
    /\ auth_info = None
    /\ PageIdle
    /\ \/ /\ ie = Some("canvas")
          /\ pc = "canvas_real_extract"
          /\ mobj \in {Some(u) : u \in CanvasURLs}
          /\ credentials = [username |-> None, password |-> None]
          /\ cookies = {}
          /\ ready = [e \in GatedExtractors |-> FALSE]
          /\ logged_in = None
       \/ /\ ie = Some("vrtnu")
          /\ pc = "vrtnu_real_extract"
          /\ mobj \in {Some(u) : u \in VrtNUURLs}
          /\ credentials = [username |-> Some("user"), password |-> Some("secret")]
          /\ cookies = {"ucid", "gmid", "vrt_token"}
          /\ ready = [e \in GatedExtractors |-> e = "vrtnu"]
          /\ logged_in = None
       \/ /\ ie = Some("vier")
          /\ pc = "vier_real_extract"
          /\ mobj \in {Some(u) : u \in VierURLs}
          /\ credentials \in Credentials
          /\ cookies = {}
          /\ ready = [e \in GatedExtractors |-> e = "vier"]
          /\ logged_in = Some(FALSE)

\* CanvasIE._real_extract: the URL match and the download of the page
Canvas_download_webpage(pages) ==
    /\ pc = "canvas_real_extract"
    /\ \E ok \in BOOLEAN, page \in pages :
         /\ requests' = Append(requests,
               SessionRequest("webpage", IF ok THEN "ok" ELSE "error"))
         /\ IF ok
            THEN webpage' = Some(page) /\ pc' = "canvas_page" /\ UNCHANGED error
            ELSE Raise("TransportError") /\ UNCHANGED webpage
    /\ UNCHANGED <<result, walkerVars, infoVars, sessionVars, locals>>

\* title, description and video id of CanvasIE._real_extract, up to the call
\* of _extract_info
Canvas_scrape ==
    /\ pc = "canvas_page"
    /\ LET page == webpage[1]
           title == Or(page.h1_title, page.og_title)
       IN  IF title = None \/ page.data_video = None
           THEN Raise("RegexNotFoundError") /\ UNCHANGED <<locals, info_args>>
           ELSE /\ locals' = Some([title |-> Some(strip(title[1])),
                                   description |-> page.og_description])
                /\ info_args' = Some([site_id |-> mobj[1].site_id,
                                      video_id |-> page.data_video,
                                      display_id |-> mobj[1].id])
                /\ pc' = "info_start"
                /\ UNCHANGED error
    /\ UNCHANGED <<result, requests, walkerVars, ie, data, target_idx, formats,
                   info, sessionVars, webpage>>

\* info.update({'title': ..., 'description': ...}); return info
Canvas_return ==
    /\ pc = "info_returned"
    /\ ie = Some("canvas")
    /\ result' = Some([id |-> info[1].id, display_id |-> info[1].display_id,
                       formats |-> info[1].formats,
                       title |-> locals[1].title,
                       description |-> locals[1].description])
    /\ pc' = "returned"
    /\ UNCHANGED <<error, requests, walkerVars, infoVars, sessionVars, pageVars>>

\* title, description, season, episode and release date of
\* VrtNUIE._real_extract; the title is stripped whatever the pattern found
VrtNU_scrape ==
    /\ pc = "vrtnu_page"
    /\ LET page == webpage[1] IN
         IF page.title = None
         THEN Raise("AttributeError") /\ UNCHANGED locals
         ELSE /\ locals' = Some([title |-> Some(strip(page.title[1])),
                                 description |-> page.description,
                                 season |-> page.season,
                                 season_number |-> SeasonNumber(page.season),
                                 episode_number |-> int_or_none(page.episode),
                                 release_date |-> parse_iso8601(page.release_date)])
              /\ pc' = "vrtnu_securevideo"
              /\ UNCHANGED error
    /\ UNCHANGED <<result, requests, walkerVars, infoVars, sessionVars, webpage>>

\* the download of <url>.securevideo.json and the mzid of its first value,
\* up to the call of _extract_info
VrtNU_securevideo ==
    /\ pc = "vrtnu_securevideo"
    /\ \E ok \in BOOLEAN, values \in SecureVideoValues :
         /\ requests' = Append(requests,
               SessionRequest("securevideo.json", IF ok THEN "ok" ELSE "error"))
         /\ IF ~ok THEN Raise("TransportError") /\ UNCHANGED info_args
            ELSE IF values = <<>>
                 THEN Raise("IndexError") /\ UNCHANGED info_args
            ELSE /\ info_args' = Some([site_id |-> "vrtvideo",
                                       video_id |-> values[1].mzid,
                                       display_id |-> mobj[1].id])
                 /\ pc' = "info_start"
                 /\ UNCHANGED error
    /\ UNCHANGED <<result, walkerVars, ie, data, target_idx, formats, info,
                   sessionVars, pageVars>>

\* info.update({...}); return info
VrtNU_return ==
    /\ pc = "info_returned"
    /\ ie = Some("vrtnu")
    /\ result' = Some([id |-> info[1].id, display_id |-> info[1].display_id,
                       formats |-> info[1].formats,
                       title |-> locals[1].title,
                       description |-> locals[1].description,
                       season |-> locals[1].season,
                       season_number |-> locals[1].season_number,
                       episode_number |-> locals[1].episode_number,
                       release_date |-> locals[1].release_date])
    /\ pc' = "returned"
    /\ UNCHANGED <<error, requests, walkerVars, infoVars, sessionVars, pageVars>>

\* video_id = self._search_regex(r'data-file="([^"]+)"', webpage, 'video id')
Vier_video_id ==
    /\ pc = "vier_page"
    /\ IF webpage[1].data_file = None
       THEN Raise("RegexNotFoundError") /\ UNCHANGED locals
       ELSE /\ locals' = Some([locals[1] EXCEPT !.video_id = webpage[1].data_file])
            /\ pc' = "vier_json"
            /\ UNCHANGED error
    /\ UNCHANGED <<result, requests, walkerVars, infoVars, sessionVars, webpage>>

\* the download of the content JSON and playlist_url = json['video']['S']
Vier_download_json ==
    /\ pc = "vier_json"
    /\ \E ok \in BOOLEAN, json \in VierContents :
         /\ requests' = Append(requests,
               SessionRequest("api.viervijfzes.be/content",
                              IF ok THEN "ok" ELSE "error"))
         /\ IF ~ok THEN Raise("TransportError") /\ UNCHANGED locals
            ELSE IF json.S = None THEN Raise("KeyError") /\ UNCHANGED locals
            ELSE /\ locals' = Some([display_id |-> locals[1].display_id,
                                    video_id |-> locals[1].video_id,
                                    playlist_url |-> json.S[1]])
                 /\ pc' = "vier_formats"
                 /\ UNCHANGED error
    /\ UNCHANGED <<result, walkerVars, infoVars, sessionVars, webpage>>

\* formats = self._extract_m3u8_formats(playlist_url, display_id), which is
\* fatal here, and self._sort_formats(formats)
Vier_formats ==
    /\ pc = "vier_formats"
    /\ \E outcome \in ManifestOutcomes :
         /\ requests' = Append(requests,
               SessionRequest("playlist.m3u8", IF outcome.ok THEN "ok" ELSE "error"))
         /\ IF ~outcome.ok THEN Raise("ExtractorError") /\ UNCHANGED formats
            ELSE IF outcome.variants = 0
                 THEN Raise("NoPlayableFormats") /\ UNCHANGED formats
            ELSE /\ formats' = sorted_formats(manifest_formats(
                       "hls", locals[1].playlist_url, outcome.variants))
                 /\ pc' = "vier_fields"
                 /\ UNCHANGED error
    /\ UNCHANGED <<result, walkerVars, ie, info_args, data, target_idx, info,
                   sessionVars, pageVars>>

\* the title, which defaults to the display id, the optional fields, and
\* the record VierIE._real_extract returns
Vier_return ==
    /\ pc = "vier_fields"
    /\ LET page == webpage[1]
           og == IF page.og_title = None THEN locals[1].display_id
                 ELSE page.og_title
           title == remove_end(og[1])
       IN  result' = Some([id |-> locals[1].video_id,
                           display_id |-> locals[1].display_id,
                           title |-> Some(title),
                           description |-> page.description,
                           thumbnail |-> page.thumbnail,
                           upload_date |-> None,
                           series |-> page.series,
                           episode_number |-> int_or_none(episode_in(title)),
                           tags |-> page.tags,
                           formats |-> formats,
                           duration |-> None])
    /\ pc' = "returned"
    /\ UNCHANGED <<error, requests, walkerVars, infoVars, sessionVars, pageVars>>

NextFields ==
    \/ Canvas_download_webpage(CanvasPages)
    \/ Canvas_scrape
    \/ Canvas_return
    \/ VrtNU_download_webpage(VrtNUPages)
    \/ VrtNU_scrape
    \/ VrtNU_securevideo
    \/ VrtNU_return
    \/ Vier_match_and_login
    \/ Vier_download_webpage(VierPages)
    \/ Vier_video_id
    \/ Vier_download_json
    \/ Vier_formats
    \/ Vier_return
    \/ ExtractInfo_download(ExtractorAssetResponses)
    \/ ExtractInfo_download_error
    \/ ExtractInfo_target
    \/ ExtractInfo_return

SpecFields == InitFields /\ [][NextFields]_vars

\* a pattern or lookup for the title or the video id was evaluated and found
\* nothing
RequiredFieldNotFound ==
    /\ ie # None
    /\ \/ /\ ie[1] = "canvas"
          /\ webpage # None
          /\ pc # "canvas_page"
          /\ \/ webpage[1].h1_title = None /\ webpage[1].og_title = None
             \/ webpage[1].data_video = None
       \/ /\ ie[1] = "vrtnu"
          /\ \/ webpage # None /\ pc # "vrtnu_page" /\ webpage[1].title = None
             \/ error = Some("IndexError")
             \/ info_args # None /\ info_args[1].video_id = None
       \/ /\ ie[1] = "vier"
          /\ webpage # None
          /\ \/ pc # "vier_page" /\ webpage[1].data_file = None
             \/ pc = "returned" /\ webpage[1].og_title = None

\* C7: when the title or the video id is not found, the extraction has
\* raised the named extraction error and returned no record; a record that
\* is returned has a title and an id, and its optional fields are absent
\* when their patterns found nothing.
C7_RequiredFields ==
    /\ RequiredFieldNotFound =>
          /\ pc = "raised"
          /\ error = Some("RegexNotFoundError")
          /\ result = None
    /\ (pc = "returned" /\ ie \in {Some("canvas"), Some("vrtnu"), Some("vier")}) =>
          /\ result[1].title # None
          /\ result[1].id # None
          /\ ie[1] = "canvas" =>
                (webpage[1].og_description = None => result[1].description = None)
          /\ ie[1] = "vrtnu" =>
                /\ webpage[1].description = None => result[1].description = None
                /\ webpage[1].season = None => result[1].season_number = None
                /\ webpage[1].episode = None => result[1].episode_number = None
                /\ webpage[1].release_date = None => result[1].release_date = None
          /\ ie[1] = "vier" =>
                /\ webpage[1].description = None => result[1].description = None
                /\ webpage[1].thumbnail = None => result[1].thumbnail = None

\* C9: the record VierIE returns carries the id of the URL (the numeric id
\* or the embed id) when the URL has one, and the id scraped from the page
\* only when it has none.
C9_VideoIdFromURL ==
    (ie = Some("vier") /\ pc = "returned") =>
        LET url_id == Or(mobj[1].id, mobj[1].embed_id) IN
        IF url_id # None THEN result[1].id = url_id
        ELSE result[1].id = webpage[1].data_file

\* the page numbers of the listing pages requested so far
FetchedPages == [i \in 1..Len(requests) |-> requests[i].url[2]]

ExplicitPage == mobj # None /\ mobj[1].page # None

\* C1: with an explicit page number N in the URL (N = 0 included) the walker
\* requests one listing page, page N, and returns right after it, whether or
\* not that page contains the marker.
C1_SinglePageMode ==
    (pc \in {"videos_loop", "returned", "raised"} /\ ExplicitPage) =>
        /\ Len(requests) <= 1
        /\ \A i \in 1..Len(requests) : FetchedPages[i] = int(mobj[1].page[1])
        /\ (Len(requests) = 1 /\ requests[1].status = "ok") => pc = "returned"

\* C2: without an explicit page the walker requests pages 0, 1, ..., k in
\* that order, each once, where page k is the first page without the marker;
\* it returns exactly then, and the entries are the links of the pages in
\* page order, each page's links in the order they were found.
C2_WalkToFirstPageWithoutMarker ==
    (pc \in {"videos_loop", "returned", "raised"} /\ ~ExplicitPage) =>
        /\ \A i \in 1..Len(requests) : FetchedPages[i] = i - 1
        /\ \A i \in 1..(Len(requests) - 1) :
              requests[i].status = "ok" /\ requests[i].more
        /\ pc = "returned" <=>
              /\ Len(requests) > 0
              /\ requests[Len(requests)].status = "ok"
              /\ ~requests[Len(requests)].more
        /\ entries = Concat([i \in 1..Len(requests) |->
                        page_entries(mobj[1].site, requests[i].links)])
        /\ pc = "returned" =>
              /\ result[1].entries = entries
              /\ result[1].id = <<mobj[1].program>>

\* the marker is first absent on page 3: pages 0-3 were requested
C2_Witness ==
    /\ pc = "returned"
    /\ ~ExplicitPage
    /\ FetchedPages = <<0, 1, 2, 3>>
    /\ Len(entries) >= 4
    /\ Len(requests[2].links) = 2

\* some listing page of the site does not contain the marker
SomePageWithoutMarker == \E p \in DOMAIN more_marker : ~more_marker[p]

\* the walk has ended because a download raised
DownloadFailed ==
    /\ pc = "raised"
    /\ error = Some("TransportError")
    /\ requests[Len(requests)].status = "error"

\* every page up to the last one modelled was fetched, each contained the
\* marker, and the loop is about to fetch the next one
StillWalking ==
    /\ pc = "videos_loop"
    /\ result = None
    /\ current_page_id = MaxPage + 1
    /\ FetchedPages = [i \in 1..(MaxPage + 1) |-> i - 1]

\* C12: without an explicit page, and as long as no download fails, the walk
\* ends and returns a listing if and only if some page lacks the marker: it
\* returns only on a page without the marker, and if there is such a page it
\* does return; when every page contains the marker it never returns a
\* listing and goes on fetching the successive pages, past any page number.
C12_Termination ==
    /\ [](~ExplicitPage =>
            /\ pc = "returned" =>
                  /\ result # None
                  /\ current_page_id \in DOMAIN more_marker
                  /\ ~more_marker[current_page_id]
            /\ ~SomePageWithoutMarker => (result = None /\ pc # "returned")
            /\ pc = "raised" => DownloadFailed)
    /\ (~ExplicitPage /\ SomePageWithoutMarker)
          ~> (pc = "returned" \/ DownloadFailed)
    /\ (~ExplicitPage /\ ~SomePageWithoutMarker)
          ~> (StillWalking \/ DownloadFailed)

\* every page of the site contains the marker: all of them were fetched, no
\* listing was returned and the loop goes on
C12_Witness ==
    /\ ~ExplicitPage
    /\ ~SomePageWithoutMarker
    /\ StillWalking
    /\ \A i \in 1..Len(requests) : requests[i].status = "ok" /\ requests[i].more

====
